---- MODULE Spec2Model ----
(***************************************************************************)
(* Model of the request execution layer of weg_li_api                      *)
(* (src/src/api/request.rs): execute_request, its recursion on non-success *)
(* responses, the backoff delay computation and err_response.              *)
(*                                                                         *)
(* One call chain is modelled: the top-level call of execute_request and   *)
(* the recursive calls it makes.  Each recursive call receives the same    *)
(* request_builder and a fresh RetryData value, so the chain is modelled   *)
(* as a loop over the positions of one invocation (try_clone, send,        *)
(* response handling) with retry_data holding the argument of the          *)
(* innermost invocation.                                                   *)
(*                                                                         *)
(* Option<T> values are sequences: <<>> is None, <<v>> is Some(v).         *)
(***************************************************************************)
EXTENDS Integers, Sequences, FiniteSets, TLC

(* ---------------------------------------------------------------------- *)
(* Bounds of the model                                                     *)
(* ---------------------------------------------------------------------- *)

\* Width in bits of the model's u64.  The source computes in 64 bits; the
\* model keeps the wrap-around and the overflow checks at a width whose
\* products stay within the integers TLC computes with.  All overflow
\* conditions are stated against U64_MAX, never against a literal.
U64Bits == 14

\* Largest max_retries a caller supplies in the model.
MaxRetries == 2

\* Longest JSON array a list endpoint answers with in the model.
MaxItems == 2

\* Most requests a chain is followed for when nothing in the code ends it.
MaxSends == 4

U64_MAX == 2 ^ U64Bits - 1

(* ---------------------------------------------------------------------- *)
(* Input domains                                                           *)
(* ---------------------------------------------------------------------- *)

\* RetrySettings.initial_backoff_ms values tried by the model.
InitialBackoffs == {0, 300, U64_MAX}

\* RetrySettings.backoff_multiplier values tried by the model.
Multipliers == {1, 2, U64_MAX}

\* RetryData.retry_count at the top-level call.  The resource fetchers
\* always pass 0; 1 is the value a caller would pass to resume a chain.
StartAttempts == {0, 1}

\* Status codes the server answers with.
Statuses == {200, 404, 429, 500, 503}

\* Header values are strings, modelled as sequences of characters.
\* "~" stands for a byte outside visible ASCII (HeaderValue::to_str fails).
RetryAfterValues ==
    { <<"1", "2", "0">>, <<"+", "5">>, <<"0", "7">>,
      <<>>, <<"a", "b", "c">>, <<"-", "1">>, <<"1", ".", "5">>, <<"~">>,
      <<"9", "9", "9", "9", "9", "9">> }

\* Header lists of a response: pairs <<name, value>>.  Header names are
\* held lower-cased by the transport (http::HeaderName).
HeaderLists ==
    { <<>>, << <<"content-type", <<"1">> >> >>,
      << <<"x-ratelimit-reset", <<"7">> >>, <<"content-type", <<"1">> >> >> }
    \cup { << <<"retry-after", v>> >> : v \in RetryAfterValues }
    \cup { << <<"x-ratelimit-reset", <<"7">> >>, <<"retry-after", <<"1", "2", "0">> >> >>,
           << <<"x-ratelimit-reset", <<"7">> >>, <<"retry-after", <<"a", "b", "c">> >> >>,
           << <<"retry-after", <<"a", "b", "c">> >>, <<"retry-after", <<"1", "2", "0">> >> >> }

Responses == [status : Statuses, headers : HeaderLists]

(* ---------------------------------------------------------------------- *)
(* Data types                                                              *)
(* ---------------------------------------------------------------------- *)

RetrySettings ==
    [max_retries : 0 .. MaxRetries,
     initial_backoff_ms : InitialBackoffs,
     backoff_multiplier : Multipliers]

DEFAULT_RETRY_SETTINGS ==
    [initial_backoff_ms |-> 300, max_retries |-> 5, backoff_multiplier |-> 2]

RetryData == [settings : RetrySettings, retry_count : StartAttempts]

None == <<>>
Some(v) == <<v>>

\* ApiError values and the Ok result, as records of one shape.
Ok(resp) == [kind |-> "Ok", status |-> resp.status, retry_after |-> None]
TooManyRequests(opt) == [kind |-> "TooManyRequests", status |-> 0, retry_after |-> opt]
UnexpectedStatusCode(code) == [kind |-> "UnexpectedStatusCode", status |-> code, retry_after |-> None]
Reqwest == [kind |-> "Reqwest", status |-> 0, retry_after |-> None]
BackoffOverflow == [kind |-> "BackoffOverflow", status |-> 0, retry_after |-> None]
RequestBuilderClone == [kind |-> "RequestBuilderClone", status |-> 0, retry_after |-> None]

(* ---------------------------------------------------------------------- *)
(* Integer arithmetic of the source (std u64)                              *)
(* ---------------------------------------------------------------------- *)

\* u64::checked_mul: None when the product does not fit.
checked_mul(a, b) ==
    IF a # 0 /\ b > U64_MAX \div a THEN None ELSE Some(a * b)

\* u64::checked_add.
checked_add(a, b) ==
    IF b > U64_MAX - a THEN None ELSE Some(a + b)

\* u64::wrapping_mul: what `*` yields in a build without overflow checks.
wrapping_mul(a, b) == (a * b) % (U64_MAX + 1)

\* u64::checked_pow(exp): None when base^exp does not fit.
RECURSIVE checked_pow(_, _)
checked_pow(base, exp) ==
    IF exp = 0 THEN Some(1)
    ELSE LET rest == checked_pow(base, exp - 1)
         IN  IF rest = None THEN None ELSE checked_mul(rest[1], base)

(* ---------------------------------------------------------------------- *)
(* err_response (request.rs:20-40)                                         *)
(* ---------------------------------------------------------------------- *)

DigitValue(c) ==
    CASE c = "0" -> 0 [] c = "1" -> 1 [] c = "2" -> 2 [] c = "3" -> 3
      [] c = "4" -> 4 [] c = "5" -> 5 [] c = "6" -> 6 [] c = "7" -> 7
      [] c = "8" -> 8 [] c = "9" -> 9 [] OTHER -> -1

\* The digit loop of str::parse::<u64>: checked multiply by 10, checked add.
RECURSIVE ParseDigits(_, _)
ParseDigits(s, acc) ==
    IF s = <<>> THEN Some(acc)
    ELSE LET d == DigitValue(Head(s))
             m == checked_mul(acc, 10)
         IN  IF d < 0 \/ m = None THEN None
             ELSE LET a == checked_add(m[1], d)
                  IN  IF a = None THEN None ELSE ParseDigits(Tail(s), a[1])

\* header_str.parse::<u64>(): an optional leading "+", then at least one
\* decimal digit; Err (None) on anything else and on overflow.
parse_u64(s) ==
    IF s = <<>> THEN None
    ELSE LET digits == IF Head(s) = "+" THEN Tail(s) ELSE s
         IN  IF digits = <<>> THEN None ELSE ParseDigits(digits, 0)

\* HeaderValue::to_str(): Err (None) when a byte is not visible ASCII.
to_str(value) ==
    IF \E i \in 1 .. Len(value) : value[i] = "~" THEN None ELSE Some(value)

\* Mutant: another rate-limit header is taken for Retry-After.
IsRetryAfter_AnyRateHeader(name) == name \in {"retry-after", "x-ratelimit-reset"}

\* header.0 == "Retry-After": HeaderName compares case-insensitively and
\* holds the name lower-cased.
IsRetryAfter(name) == name = "retry-after"

\* response.headers().iter().find(..): the first matching header.
RECURSIVE FindRetryAfter(_)
FindRetryAfter(headers) ==
    IF headers = <<>> THEN None
    ELSE IF IsRetryAfter(Head(headers)[1]) THEN Some(Head(headers))
    ELSE FindRetryAfter(Tail(headers))

\* Mutant: 503 is not recognised as a wait signal.
IsWaitStatus_Only429(status) == status = 429

\* request.rs:21
IsWaitStatus(status) == status \in {429, 503}

\* Mutant: every failing status is reported as UnexpectedStatusCode.
err_response_NoRateLimit(response) == UnexpectedStatusCode(response.status)

\* request.rs:20-40
err_response(response) ==
    IF IsWaitStatus(response.status)
    THEN LET retry_after_header == FindRetryAfter(response.headers)
         IN  IF retry_after_header = None THEN TooManyRequests(None)
             ELSE LET header_str == to_str(retry_after_header[1][2])
                  IN  IF header_str = None THEN TooManyRequests(None)
                      ELSE LET parsed == parse_u64(header_str[1])
                           IN  IF parsed = None THEN TooManyRequests(None)
                               ELSE TooManyRequests(Some(parsed[1]))
    ELSE UnexpectedStatusCode(response.status)

(* ---------------------------------------------------------------------- *)
(* execute_request (request.rs:42-92)                                      *)
(* ---------------------------------------------------------------------- *)

VARIABLES
    clonable,           \* whether request_builder.try_clone() yields a copy
    caller_retry_data,  \* the Option<RetryData> the top-level caller owns
    retry_data,         \* the retry_data argument of the current invocation
    pc,                 \* position in the current invocation
    response,           \* Option: the response of the latest send
    statuses,           \* status codes of all responses of the chain
    sends,              \* number of send() calls made by the chain
    sleeps,             \* the delays (ms) passed to thread::sleep, in order
    result              \* Option: what the top-level call returned

\* The resource fetcher that started the chain (api/charge.rs, district.rs,
\* notice.rs, export.rs).
VARIABLES
    fetcher,            \* the fetcher that runs, "none" for a direct call
    retry_settings,     \* its retry_settings argument: Option<RetrySettings>
    body,               \* Option: the body of the response it decoded
    fetched             \* Option: what the fetcher returned

\* A second call chain and the threads of the executor that runs both.
VARIABLES
    parked,             \* Option: the state of the chain that is not running
    running,            \* which of the two chains the chain variables hold
    threads             \* number of threads the two chains are run on

\* A call of download_latest_export_from_wegli and the target directory.
VARIABLES
    unzip,              \* its unzip argument
    dl_pc,              \* position in the call, "idle" when there is none
    dir,                \* the entries of the target directory and their origin
    latest,             \* Option: the export chosen for download
    archive,            \* the entries of the downloaded archive, in order
    dl_response,        \* Option: the status of the response to the download
    dl_result           \* Option: what the call returned

chain_vars == <<clonable, caller_retry_data, retry_data, pc, response, statuses,
                sends, sleeps, result>>

fetch_vars == <<fetcher, retry_settings, body, fetched>>

pair_vars == <<parked, running, threads>>

export_vars == <<unzip, dl_pc, dir, latest, archive, dl_response, dl_result>>

host_vars == <<fetch_vars, pair_vars, export_vars>>

vars == <<chain_vars, host_vars>>

\* Mutant: only server errors count as failures.
is_success_Below500(status) == status < 500

\* StatusCode::is_success
is_success(status) == status \in 200 .. 299

\* Mutant: the max_retries == 0 test is missing.
RetriesExhausted_NoZeroCheck(rd) ==
    rd.retry_count = rd.settings.max_retries

\* Mutant: the budget counts as spent one retry early.
RetriesExhausted_OneEarly(rd) ==
    rd.retry_count + 1 >= rd.settings.max_retries \/ rd.settings.max_retries = 0

\* Mutant: the budget counts as spent only once the counter has passed it.
RetriesExhausted_AfterLimit(rd) ==
    rd.retry_count > rd.settings.max_retries \/ rd.settings.max_retries = 0

\* request.rs:63-64
RetriesExhausted(rd) ==
    rd.retry_count = rd.settings.max_retries \/ rd.settings.max_retries = 0

\* Mutant: the counter is not incremented.
NextRetryData_NoIncrement(rd) == rd

\* Mutant: the counter is incremented twice.
NextRetryData_SkipOne(rd) == [rd EXCEPT !.retry_count = rd.retry_count + 2]

\* Mutant: the retry is counted down on the policy instead of up on the
\* counter.
NextRetryData_CountDown(rd) ==
    [rd EXCEPT !.settings.max_retries = rd.settings.max_retries - 1]

\* request.rs:62,68: the clone of the argument with its counter incremented.
\* (u32 overflow of the counter is out of reach of the retry counts modelled.)
NextRetryData(rd) == [rd EXCEPT !.retry_count = rd.retry_count + 1]

\* request.rs:72-83: the checked factor of the delay.
BackoffFactor(rd) == checked_pow(rd.settings.backoff_multiplier, rd.retry_count)

\* execute_request called directly, not through a fetcher.
NoFetcher ==
    /\ fetcher = "none"
    /\ retry_settings = None
    /\ body = None
    /\ fetched = None

\* One chain only.
NoPeer ==
    /\ parked = None
    /\ running = 1
    /\ threads = 1

\* No download.
NoExport ==
    /\ unzip = FALSE
    /\ dl_pc = "idle"
    /\ dir = <<>>
    /\ latest = None
    /\ archive = <<>>
    /\ dl_response = None
    /\ dl_result = None

Init ==
    /\ clonable \in BOOLEAN
    /\ caller_retry_data \in {None} \cup {Some(rd) : rd \in RetryData}
    /\ retry_data = caller_retry_data
    /\ pc = "try_clone"
    /\ response = None
    /\ statuses = <<>>
    /\ sends = 0
    /\ sleeps = <<>>
    /\ result = None
    /\ NoFetcher
    /\ NoPeer
    /\ NoExport

Return(r) ==
    /\ result' = Some(r)
    /\ pc' = "done"

\* Mutant: a failed try_clone is not noticed and the request is sent.
TryClone_IgnoreFailure ==
    /\ pc = "try_clone"
    /\ pc' = "send"
    /\ UNCHANGED <<clonable, caller_retry_data, retry_data, response, statuses,
                   sends, sleeps, result>>
    /\ UNCHANGED host_vars

\* request.rs:46-52
TryClone ==
    /\ pc = "try_clone"
    /\ IF clonable
       THEN pc' = "send" /\ UNCHANGED result
       ELSE Return(RequestBuilderClone)
    /\ UNCHANGED <<clonable, caller_retry_data, retry_data, response, statuses,
                   sends, sleeps>>
    /\ UNCHANGED host_vars

\* Mutant: a transport failure is retried instead of returned.
Send_RetryTransportError ==
    /\ pc = "send"
    /\ sends' = sends + 1
    /\ \/ /\ pc' = "try_clone"
          /\ UNCHANGED <<response, statuses, result>>
       \/ \E r \in Responses :
            /\ response' = Some(r)
            /\ statuses' = Append(statuses, r.status)
            /\ pc' = "respond"
            /\ UNCHANGED result
    /\ UNCHANGED <<clonable, caller_retry_data, retry_data, sleeps>>
    /\ UNCHANGED host_vars

\* request.rs:53-56: local_request_builder.send().await
Send ==
    /\ pc = "send"
    /\ sends' = sends + 1
    /\ \/ /\ Return(Reqwest)
          /\ UNCHANGED <<response, statuses>>
       \/ \E r \in Responses :
            /\ response' = Some(r)
            /\ statuses' = Append(statuses, r.status)
            /\ pc' = "respond"
            /\ UNCHANGED result
    /\ UNCHANGED <<clonable, caller_retry_data, retry_data, sleeps>>
    /\ UNCHANGED host_vars

\* request.rs:68-84 for an invocation whose budget is not exhausted: the
\* delay and the call of thread::sleep, which blocks the calling thread
\* (pc = "sleeping") until SleepReturns.  The product
\* initial_backoff_ms * exp is an unchecked `*`: when it overflows, a build
\* with overflow checks panics and a build without them wraps.
SleepAndRecurse(iter_retry_data) ==
    LET exp == BackoffFactor(iter_retry_data)
        initial == iter_retry_data.settings.initial_backoff_ms
    IN  IF exp = None
        THEN /\ Return(BackoffOverflow)
             /\ UNCHANGED <<retry_data, sleeps>>
        ELSE IF checked_mul(initial, exp[1]) = None
        THEN \/ /\ pc' = "panicked"
                /\ UNCHANGED <<retry_data, sleeps, result>>
             \/ /\ sleeps' = Append(sleeps, wrapping_mul(initial, exp[1]))
                /\ retry_data' = Some(iter_retry_data)
                /\ pc' = "sleeping"
                /\ UNCHANGED result
        ELSE /\ sleeps' = Append(sleeps, initial * exp[1])
             /\ retry_data' = Some(iter_retry_data)
             /\ pc' = "sleeping"
             /\ UNCHANGED result

\* Mutant: the factor of the next delay is computed, and its overflow
\* reported, before the budget is looked at.
HandleResponse_OverflowFirst ==
    /\ pc = "respond"
    /\ LET resp == response[1]
       IN  IF ~is_success(resp.status)
           THEN IF retry_data = None
                THEN /\ Return(err_response(resp))
                     /\ UNCHANGED <<retry_data, sleeps>>
                ELSE IF BackoffFactor(NextRetryData(retry_data[1])) = None
                THEN /\ Return(BackoffOverflow)
                     /\ UNCHANGED <<retry_data, sleeps>>
                ELSE IF RetriesExhausted(retry_data[1])
                THEN /\ Return(err_response(resp))
                     /\ UNCHANGED <<retry_data, sleeps>>
                ELSE SleepAndRecurse(NextRetryData(retry_data[1]))
           ELSE /\ Return(Ok(resp))
                /\ UNCHANGED <<retry_data, sleeps>>
    /\ UNCHANGED <<clonable, caller_retry_data, response, statuses, sends>>
    /\ UNCHANGED host_vars

\* request.rs:58-91
HandleResponse ==
    /\ pc = "respond"
    /\ LET resp == response[1]
       IN  IF ~is_success(resp.status)
           THEN IF retry_data = None
                THEN /\ Return(err_response(resp))
                     /\ UNCHANGED <<retry_data, sleeps>>
                ELSE IF RetriesExhausted(retry_data[1])
                THEN /\ Return(err_response(resp))
                     /\ UNCHANGED <<retry_data, sleeps>>
                ELSE SleepAndRecurse(NextRetryData(retry_data[1]))
           ELSE /\ Return(Ok(resp))
                /\ UNCHANGED <<retry_data, sleeps>>
    /\ UNCHANGED <<clonable, caller_retry_data, response, statuses, sends>>
    /\ UNCHANGED host_vars

\* Mutant: after the delay the copy of the previous attempt is sent again,
\* without a new try_clone.
SleepReturns_ReuseClone ==
    /\ pc = "sleeping"
    /\ pc' = "send"
    /\ UNCHANGED <<clonable, caller_retry_data, retry_data, response, statuses,
                   sends, sleeps, result>>
    /\ UNCHANGED host_vars

\* Mutant: the chain sleeps and then returns the error of the response it
\* slept after, without a new attempt.
SleepReturns_EndsChain ==
    /\ pc = "sleeping"
    /\ Return(err_response(response[1]))
    /\ UNCHANGED <<clonable, caller_retry_data, retry_data, response, statuses,
                   sends, sleeps>>
    /\ UNCHANGED host_vars

\* request.rs:84-86: thread::sleep returns and execute_request is called
\* again with the same request_builder and Some(iter_retry_data).
SleepReturns ==
    /\ pc = "sleeping"
    /\ pc' = "try_clone"
    /\ UNCHANGED <<clonable, caller_retry_data, retry_data, response, statuses,
                   sends, sleeps, result>>
    /\ UNCHANGED host_vars

Next == TryClone \/ Send \/ HandleResponse \/ SleepReturns

Spec == Init /\ [][Next]_vars

\* The chain under the scheduling the code relies on: a step that can be
\* taken (try_clone, the completion of send().await, the handling of a
\* response, the return of thread::sleep) is eventually taken.
LiveSpec == Init /\ [][Next]_vars /\ WF_vars(Next)

(* ---------------------------------------------------------------------- *)
(* The resource fetchers (api/charge.rs, notice.rs, district.rs, export.rs) *)
(* ---------------------------------------------------------------------- *)

SingleFetchers == {"get_charge", "get_notice", "get_district"}

ListFetchers == {"get_charges", "get_notices", "get_districts", "get_exports"}

Fetchers == SingleFetchers \cup ListFetchers

\* A JSON object of the body: which one it is, and whether try_from
\* accepts it.
Items == [id : {1, 2}, convertible : BOOLEAN]

ItemSeqs(n) == UNION {[1 .. k -> Items] : k \in 0 .. n}

\* What response.json::<T>() makes of the body of a success response for
\* fetcher f: a deserialization error, or the parsed object (single
\* fetchers: T = XJson) or array (list fetchers: T = Vec<XJson>).
Bodies(f) ==
    {[parsed |-> FALSE, items |-> <<>>]}
    \cup {[parsed |-> TRUE, items |-> items] :
            items \in IF f \in ListFetchers
                      THEN ItemSeqs(MaxItems)
                      ELSE [1 .. 1 -> Items]}

Deserialize == [kind |-> "Deserialize"]
Conversion(item) == [kind |-> "Conversion", item |-> item.id]

\* X::try_from(&item): the entity made of a JSON object.
Converted(item) == [entity |-> item.id]

FetchOk(v) == [kind |-> "Ok", value |-> v]
FetchErr(e) == [kind |-> "Err", value |-> e]

\* Mutant: without retry_settings the executor is run without retry state.
RetryDataFor_NoDefault(settings) ==
    IF settings = None THEN None
    ELSE Some([retry_count |-> 0, settings |-> settings[1]])

\* charge.rs:17-23 and 28 (the same in every fetcher): the retry state
\* handed to execute_request.
RetryDataFor(settings) ==
    Some([retry_count |-> 0,
          settings |-> IF settings = None THEN DEFAULT_RETRY_SETTINGS
                       ELSE settings[1]])

\* charge.rs:71-83 (the same in every list fetcher): the loop over the
\* parsed array; the first item try_from rejects ends it.
RECURSIVE ConvertAll(_, _)
ConvertAll(items, acc) ==
    IF items = <<>> THEN FetchOk(acc)
    ELSE IF ~Head(items).convertible THEN FetchErr(Conversion(Head(items)))
    ELSE ConvertAll(Tail(items), Append(acc, Converted(Head(items))))

\* Mutant: the list loop stops before the last item.
Decode_SkipsLast(f, b) ==
    IF ~b.parsed THEN FetchErr(Deserialize)
    ELSE IF f \in ListFetchers
    THEN ConvertAll(SubSeq(b.items, 1, Len(b.items) - 1), <<>>)
    ELSE IF b.items[1].convertible
         THEN FetchOk(Converted(b.items[1]))
         ELSE FetchErr(Conversion(b.items[1]))

\* Mutant: a list fetcher leaves out the items try_from rejects.
Decode_PartialList(f, b) ==
    IF ~b.parsed THEN FetchErr(Deserialize)
    ELSE IF f \in ListFetchers
    THEN LET good == SelectSeq(b.items, LAMBDA item : item.convertible)
         IN  FetchOk([k \in 1 .. Len(good) |-> Converted(good[k])])
    ELSE IF b.items[1].convertible
         THEN FetchOk(Converted(b.items[1]))
         ELSE FetchErr(Conversion(b.items[1]))

\* charge.rs:33-44 (single) and 68-85 (list): from the body to the result.
Decode(f, b) ==
    IF ~b.parsed THEN FetchErr(Deserialize)
    ELSE IF f \in ListFetchers
    THEN ConvertAll(b.items, <<>>)
    ELSE IF b.items[1].convertible
         THEN FetchOk(Converted(b.items[1]))
         ELSE FetchErr(Conversion(b.items[1]))

\* A call of a fetcher: the request is a GET without a body, which
\* try_clone can always copy.
FetchInit ==
    /\ fetcher \in Fetchers
    /\ retry_settings \in {None} \cup {Some(st) : st \in RetrySettings}
    /\ body = None
    /\ fetched = None
    /\ clonable = TRUE
    /\ caller_retry_data = None
    /\ retry_data = None
    /\ pc = "fetch"
    /\ response = None
    /\ statuses = <<>>
    /\ sends = 0
    /\ sleeps = <<>>
    /\ result = None
    /\ NoPeer
    /\ NoExport

\* charge.rs:17-28: the fetcher builds the retry state and the request and
\* calls execute_request.
FetcherCall ==
    /\ pc = "fetch"
    /\ caller_retry_data' = RetryDataFor(retry_settings)
    /\ retry_data' = caller_retry_data'
    /\ pc' = "try_clone"
    /\ UNCHANGED <<clonable, response, statuses, sends, sleeps, result>>
    /\ UNCHANGED host_vars

\* Mutant: a body that does not decode sends the fetcher back into the
\* retry loop.
FetcherReturn_RetryBadBody ==
    /\ fetcher # "none"
    /\ pc = "done"
    /\ fetched = None
    /\ IF result[1].kind # "Ok"
       THEN /\ fetched' = Some(FetchErr(result[1]))
            /\ UNCHANGED <<body, chain_vars>>
       ELSE \E b \in Bodies(fetcher) :
              /\ body' = Some(b)
              /\ IF Decode(fetcher, b).kind = "Ok"
                 THEN /\ fetched' = Some(Decode(fetcher, b))
                      /\ UNCHANGED chain_vars
                 ELSE /\ pc' = "try_clone"
                      /\ UNCHANGED <<fetched, clonable, caller_retry_data, retry_data,
                                     response, statuses, sends, sleeps, result>>
    /\ UNCHANGED <<fetcher, retry_settings, pair_vars, export_vars>>

\* charge.rs:28-44: execute_request has returned; an error is passed on,
\* the body of a response is deserialized and converted.
FetcherReturn ==
    /\ fetcher # "none"
    /\ pc = "done"
    /\ fetched = None
    /\ IF result[1].kind # "Ok"
       THEN /\ fetched' = Some(FetchErr(result[1]))
            /\ UNCHANGED body
       ELSE \E b \in Bodies(fetcher) :
              /\ body' = Some(b)
              /\ fetched' = Some(Decode(fetcher, b))
    /\ UNCHANGED chain_vars
    /\ UNCHANGED <<fetcher, retry_settings, pair_vars, export_vars>>

\* The responses the server gives in FetchSpec: every status, no headers.
FetchResponses == [status : Statuses, headers : {<<>>}]

\* Send against that server.
FetchSend ==
    /\ Send
    /\ response' # None => response'[1] \in FetchResponses

FetchNext ==
    \/ FetcherCall
    \/ TryClone
    \/ FetchSend
    \/ HandleResponse
    \/ SleepReturns
    \/ FetcherReturn

FetchSpec == FetchInit /\ [][FetchNext]_vars

(* ---------------------------------------------------------------------- *)
(* Two call chains invoked concurrently                                    *)
(* ---------------------------------------------------------------------- *)

\* The chain the host is running, as the record it is kept in while the
\* host runs the other one: what execute_request owns per invocation
\* (request_builder, retry_data / iter_retry_data, response) and what the
\* model observes of it.
ChainState ==
    [clonable |-> clonable, caller_retry_data |-> caller_retry_data,
     retry_data |-> retry_data, pc |-> pc, response |-> response,
     statuses |-> statuses, sends |-> sends, sleeps |-> sleeps,
     result |-> result]

\* A chain that has been invoked and has not run yet.
InitialChain(cl, rd) ==
    [clonable |-> cl, caller_retry_data |-> rd, retry_data |-> rd,
     pc |-> "try_clone", response |-> None, statuses |-> <<>>, sends |-> 0,
     sleeps |-> <<>>, result |-> None]

\* Retry states of the two chains: none, an ordinary policy, and one whose
\* delay overflows at the first retry and whose factor overflows at the
\* second.
PairRetryData ==
    {None,
     Some([retry_count |-> 0,
           settings |-> [initial_backoff_ms |-> 300, max_retries |-> MaxRetries,
                         backoff_multiplier |-> 2]]),
     Some([retry_count |-> 0,
           settings |-> [initial_backoff_ms |-> 300, max_retries |-> MaxRetries,
                         backoff_multiplier |-> U64_MAX]])}

\* Two invocations of execute_request by one host, on one thread
\* (threads = 1: two futures of one task or two tasks of a current-thread
\* runtime) or on two.
PairInit ==
    /\ clonable \in BOOLEAN
    /\ caller_retry_data \in PairRetryData
    /\ retry_data = caller_retry_data
    /\ pc = "try_clone"
    /\ response = None
    /\ statuses = <<>>
    /\ sends = 0
    /\ sleeps = <<>>
    /\ result = None
    /\ NoFetcher
    /\ parked \in {Some(InitialChain(cl, rd)) : cl \in BOOLEAN, rd \in PairRetryData}
    /\ running = 1
    /\ threads \in {1, 2}
    /\ NoExport

\* Where a chain gives up its thread: the pending send().await of
\* request.rs:53 and the end of the chain.  Nothing between them awaits;
\* thread::sleep (request.rs:70) keeps the thread.
YieldPoints == {"send", "done", "panicked"}

\* Mutant: the retry state is one slot used by whichever chain runs.
Switch_SharedCounter ==
    /\ parked # None
    /\ threads = 2 \/ pc \in YieldPoints
    /\ parked' = Some(ChainState)
    /\ running' = 3 - running
    /\ clonable' = parked[1].clonable
    /\ caller_retry_data' = parked[1].caller_retry_data
    /\ retry_data' = retry_data
    /\ pc' = parked[1].pc
    /\ response' = parked[1].response
    /\ statuses' = parked[1].statuses
    /\ sends' = parked[1].sends
    /\ sleeps' = parked[1].sleeps
    /\ result' = parked[1].result
    /\ UNCHANGED <<fetch_vars, threads, export_vars>>

\* The host goes on with the other chain: at any point when each chain has
\* a thread of its own, at a yield point of the running chain when they
\* share one.
Switch ==
    /\ parked # None
    /\ threads = 2 \/ pc \in YieldPoints
    /\ parked' = Some(ChainState)
    /\ running' = 3 - running
    /\ clonable' = parked[1].clonable
    /\ caller_retry_data' = parked[1].caller_retry_data
    /\ retry_data' = parked[1].retry_data
    /\ pc' = parked[1].pc
    /\ response' = parked[1].response
    /\ statuses' = parked[1].statuses
    /\ sends' = parked[1].sends
    /\ sleeps' = parked[1].sleeps
    /\ result' = parked[1].result
    /\ UNCHANGED <<fetch_vars, threads, export_vars>>

\* The responses the server gives in PairSpec: a success, a plain failure
\* and a rate limit, no headers.
PairResponses == [status : {200, 500, 503}, headers : {<<>>}]

\* Send against that server.
PairSend ==
    /\ Send
    /\ response' # None => response'[1] \in PairResponses

PairNext ==
    \/ TryClone
    \/ PairSend
    \/ HandleResponse
    \/ SleepReturns
    \/ Switch

PairSpec == PairInit /\ [][PairNext]_vars

(* ---------------------------------------------------------------------- *)
(* download_latest_export_from_wegli (api/export.rs, api/util.rs)          *)
(* ---------------------------------------------------------------------- *)

\* A file name: stem and extension.  A directory has extension "".
File(stem, ext) == [stem |-> stem, ext |-> ext]

\* An entry of an archive: the directory it lies in ("" for the top of the
\* archive) and its file name.
Entry(parent, stem, ext) == [parent |-> parent, name |-> File(stem, ext)]

\* The archives the server delivers in the model.
Archives ==
    { <<>>,
      <<Entry("", "readme", "txt")>>,
      <<Entry("", "notices", "csv")>>,
      <<Entry("", "NOTICES2", "CSV")>>,
      <<Entry("", "notices", "csv"), Entry("", "NOTICES2", "CSV")>>,
      <<Entry("", "readme", "txt"), Entry("", "notices", "csv")>>,
      <<Entry("sub", "inner", "csv")>>,
      <<Entry("sub", "inner", "csv"), Entry("", "readme", "txt")>> }

\* What the target directory holds before the call: name |-> origin.
Directories ==
    { <<>>,
      (File("old", "csv") :> "before"),
      (File("notices", "csv") :> "before"),
      (File("old", "csv") :> "before") @@ (File("notices", "csv") :> "before") }

\* str::to_lowercase on the extensions of the model.
to_lowercase(ext) ==
    CASE ext = "CSV" -> "csv"
      [] ext = "TXT" -> "txt"
      [] ext = "ZIP" -> "zip"
      [] OTHER -> ext

\* export.rs:111: file_name.to_lowercase().ends_with(".csv")
IsCsvName(f) == to_lowercase(f.ext) = "csv"

\* Directory d after file or directory f has been created in it by origin.
Created(d, f, origin) ==
    [n \in DOMAIN d \cup {f} |-> IF n = f THEN origin ELSE d[n]]

\* types/export.rs:59-78: an export of the model is told from the others
\* by its created_at.
created_at(export) == export.entity

\* util.rs:17-22: the file name is the last segment of download.url.
download_file(export) ==
    File(IF export.entity = 1 THEN "export1" ELSE "export2", "zip")

\* export.rs:76: exports.sort_by(|a, b| b.created_at.cmp(&a.created_at)),
\* a stable sort into descending order (insertion of each export after
\* those that are not older).
RECURSIVE InsertDescending(_, _)
InsertDescending(sorted, e) ==
    IF sorted = <<>> THEN <<e>>
    ELSE IF created_at(Head(sorted)) >= created_at(e)
    THEN <<Head(sorted)>> \o InsertDescending(Tail(sorted), e)
    ELSE <<e>> \o sorted

RECURSIVE sort_by_created_at(_)
sort_by_created_at(exports) ==
    IF exports = <<>> THEN <<>>
    ELSE InsertDescending(sort_by_created_at(SubSeq(exports, 1, Len(exports) - 1)),
                          exports[Len(exports)])

\* util.rs:58-91: the entries are created in the target directory in the
\* order of the archive; a file that exists is replaced, the parent
\* directory of a nested entry is created when it does not exist.
RECURSIVE unzip_archive(_, _)
unzip_archive(d, entries) ==
    IF entries = <<>> THEN d
    ELSE LET e == Head(entries)
         IN  IF e.parent = ""
             THEN unzip_archive(Created(d, e.name, "unzip"), Tail(entries))
             ELSE IF File(e.parent, "") \in DOMAIN d
             THEN unzip_archive(d, Tail(entries))
             ELSE unzip_archive(Created(d, File(e.parent, ""), "unzip"), Tail(entries))

\* The orders in which fs::read_dir may yield the entries of a directory.
RECURSIVE ReadDirOrders(_)
ReadDirOrders(names) ==
    IF names = {} THEN {<<>>}
    ELSE UNION {{<<n>> \o rest : rest \in ReadDirOrders(names \ {n})} : n \in names}

\* export.rs:98-117: the loop over the directory entries; every name that
\* ends in .csv replaces found_csv, and the loop does not stop at it.
RECURSIVE FindCsv(_, _)
FindCsv(paths, found_csv) ==
    IF paths = <<>> THEN found_csv
    ELSE FindCsv(Tail(paths),
                 IF IsCsvName(Head(paths)) THEN Some(Head(paths)) ELSE found_csv)

DlOk(f) == [kind |-> "Ok", file |-> Some(f), error |-> ""]
DlErr(msg) == [kind |-> "Err", file |-> None, error |-> msg]

DlReturn(r) ==
    /\ dl_result' = Some(r)
    /\ dl_pc' = "done"

\* A call of download_latest_export_from_wegli: get_exports is to be
\* called.
ExportInit ==
    /\ fetcher = "get_exports"
    /\ retry_settings \in
          {None, Some([initial_backoff_ms |-> 300, max_retries |-> 1,
                       backoff_multiplier |-> 2])}
    /\ body = None
    /\ fetched = None
    /\ clonable = TRUE
    /\ caller_retry_data = None
    /\ retry_data = None
    /\ pc = "fetch"
    /\ response = None
    /\ statuses = <<>>
    /\ sends = 0
    /\ sleeps = <<>>
    /\ result = None
    /\ NoPeer
    /\ unzip \in BOOLEAN
    /\ dl_pc = "get_exports"
    /\ dir \in Directories
    /\ latest = None
    /\ archive = <<>>
    /\ dl_response = None
    /\ dl_result = None

\* Mutant: the last export of the sorted list is taken.
SelectExport_TakesLast ==
    /\ dl_pc = "get_exports"
    /\ fetched # None
    /\ IF fetched[1].kind # "Ok"
       THEN /\ DlReturn(DlErr("api"))
            /\ UNCHANGED latest
       ELSE LET exports == sort_by_created_at(fetched[1].value)
            IN  IF exports = <<>>
                THEN /\ DlReturn(DlErr("no export found"))
                     /\ UNCHANGED latest
                ELSE /\ latest' = Some(exports[Len(exports)])
                     /\ dl_pc' = "download"
                     /\ UNCHANGED dl_result
    /\ UNCHANGED <<unzip, dir, archive, dl_response>>
    /\ UNCHANGED <<chain_vars, fetch_vars, pair_vars>>

\* export.rs:72-85: get_exports has returned; its error is passed on, its
\* exports are sorted, the first is taken and its download is started.
SelectExport ==
    /\ dl_pc = "get_exports"
    /\ fetched # None
    /\ IF fetched[1].kind # "Ok"
       THEN /\ DlReturn(DlErr("api"))
            /\ UNCHANGED latest
       ELSE LET exports == sort_by_created_at(fetched[1].value)
            IN  IF exports = <<>>
                THEN /\ DlReturn(DlErr("no export found"))
                     /\ UNCHANGED latest
                ELSE /\ latest' = Some(Head(exports))
                     /\ dl_pc' = "download"
                     /\ UNCHANGED dl_result
    /\ UNCHANGED <<unzip, dir, archive, dl_response>>
    /\ UNCHANGED <<chain_vars, fetch_vars, pair_vars>>

\* Status codes the server of the archive answers with.
DownloadStatuses == {200, 404, 503}

\* util.rs:11-48 and export.rs:85-127: download_to_dir returns, and the
\* rest of the call.  download_to_dir fails before it has created the file
\* (Url::parse, File::create) or after (reqwest::get, the byte stream);
\* otherwise it has made one reqwest::get(url), has written the body of the
\* response, whatever its status, to the file and returns the path.  The
\* body of a non-success response is not an archive.  Without unzip the
\* path is returned; with unzip the archive is extracted into the target
\* directory, the directory is read and the .csv the loop ends with is
\* returned.
DownloadReturns ==
    /\ dl_pc = "download"
    /\ LET zip == download_file(latest[1])
           downloaded == Created(dir, zip, "download")
       IN  \/ /\ DlReturn(DlErr("download"))
              /\ UNCHANGED <<dir, archive, dl_response>>
           \/ /\ DlReturn(DlErr("download"))
              /\ dir' = downloaded
              /\ UNCHANGED <<archive, dl_response>>
           \/ \E status \in DownloadStatuses :
                /\ dl_response' = Some(status)
                /\ \/ /\ DlReturn(DlErr("download"))
                      /\ dir' = downloaded
                      /\ UNCHANGED archive
                   \/ /\ ~unzip
                      /\ dir' = downloaded
                      /\ archive' \in IF is_success(status) THEN Archives ELSE {<<>>}
                      /\ DlReturn(DlOk(zip))
                   \/ /\ unzip
                      /\ dir' = downloaded
                      /\ UNCHANGED archive
                      /\ DlReturn(DlErr("unzip"))
                   \/ /\ unzip
                      /\ is_success(status)
                      /\ archive' \in Archives
                      /\ dir' = unzip_archive(downloaded, archive')
                      /\ \E paths \in ReadDirOrders(DOMAIN dir') :
                            LET found_csv == FindCsv(paths, None)
                            IN  IF found_csv = None
                                THEN DlReturn(DlErr("could not find csv"))
                                ELSE DlReturn(DlOk(found_csv[1]))
    /\ UNCHANGED <<unzip, latest>>
    /\ UNCHANGED <<chain_vars, fetch_vars, pair_vars>>

\* The responses the API gives in ExportSpec.
ExportResponses == [status : {200, 500}, headers : {<<>>}]

\* Send against that server.
ExportSend ==
    /\ Send
    /\ response' # None => response'[1] \in ExportResponses

ExportNext ==
    \/ FetcherCall
    \/ TryClone
    \/ ExportSend
    \/ HandleResponse
    \/ SleepReturns
    \/ FetcherReturn
    \/ SelectExport
    \/ DownloadReturns

ExportSpec == ExportInit /\ [][ExportNext]_vars

(* ---------------------------------------------------------------------- *)
(* execute_request called with any retry state                             *)
(* ---------------------------------------------------------------------- *)

\* execute_request accepts every RetryData: retry_count is a field the
\* caller sets, to any value, also one above max_retries.
AnyRetryData ==
    [settings : RetrySettings, retry_count : 0 .. MaxRetries + 1]

AnyStartInit ==
    /\ clonable \in BOOLEAN
    /\ caller_retry_data \in {Some(rd) : rd \in AnyRetryData}
    /\ retry_data = caller_retry_data
    /\ pc = "try_clone"
    /\ response = None
    /\ statuses = <<>>
    /\ sends = 0
    /\ sleeps = <<>>
    /\ result = None
    /\ NoFetcher
    /\ NoPeer
    /\ NoExport

\* The responses the server gives in AnyStartSpec.
AnyStartResponses == [status : {200, 429, 500}, headers : {<<>>}]

\* Send against that server, followed for MaxSends requests.
AnyStartSend ==
    /\ sends < MaxSends
    /\ Send
    /\ response' # None => response'[1] \in AnyStartResponses

AnyStartNext ==
    \/ TryClone
    \/ AnyStartSend
    \/ HandleResponse
    \/ SleepReturns

AnyStartSpec == AnyStartInit /\ [][AnyStartNext]_vars

(* ---------------------------------------------------------------------- *)
(* Vocabulary of the properties                                            *)
(* ---------------------------------------------------------------------- *)

\* The chain was started with retry state whose counter is 0.
StartedAtZero ==
    caller_retry_data # None /\ caller_retry_data[1].retry_count = 0

Policy == caller_retry_data[1].settings

LastStatus == statuses[Len(statuses)]

Returned(kind) == pc = "done" /\ result # None /\ result[1].kind = kind

\* The call returned an error computed from a response status.
ReturnedStatusError ==
    Returned("TooManyRequests") \/ Returned("UnexpectedStatusCode")

(* ---------------------------------------------------------------------- *)
(* C1                                                                      *)
(* ---------------------------------------------------------------------- *)

\* C1 (as stated): every 429/503 response is terminal.  Whenever the chain
\* has received a 429 or 503 as its i-th response, it has made exactly i
\* sends, has not slept after that response, and is either about to handle
\* the response or has returned TooManyRequests.
C1_TerminalOn429 ==
    \A i \in 1 .. Len(statuses) :
        statuses[i] \in {429, 503} =>
            /\ sends = i
            /\ Len(sleeps) < i
            /\ pc \in {"respond", "done"}
            /\ pc = "done" => Returned("TooManyRequests")

\* C1 (amended): a 429/503 response is terminal exactly when no retry state
\* is supplied, max_retries = 0 or retry_count = max_retries; the call then
\* returns TooManyRequests in the same step without a sleep or a send.
\* Otherwise the response is handled like any other non-success status: the
\* call does not return TooManyRequests for it (it sleeps before it
\* re-enters try_clone, or fails on the delay computation).
C1_TerminalWhenExhausted ==
    [][ (pc = "respond" /\ response[1].status \in {429, 503}) =>
            IF \/ retry_data = None
               \/ retry_data[1].settings.max_retries = 0
               \/ retry_data[1].retry_count = retry_data[1].settings.max_retries
            THEN /\ pc' = "done"
                 /\ result' # None /\ result'[1].kind = "TooManyRequests"
                 /\ sleeps' = sleeps
                 /\ sends' = sends
            ELSE /\ ~(result' # None /\ result'[1].kind = "TooManyRequests")
                 /\ \/ pc' = "sleeping" /\ Len(sleeps') = Len(sleeps) + 1
                    \/ pc' = "panicked"
                    \/ pc' = "done" /\ result'[1].kind = "BackoffOverflow"
      ]_vars

\* A chain started at 0 with max_retries = 2 that was answered 429, then
\* 404, then 503: the first 429 was retried, the last 503 was terminal.
C1_Witness ==
    /\ StartedAtZero /\ Policy.max_retries = 2
    /\ statuses = <<429, 404, 503>>
    /\ Len(sleeps) = 2
    /\ Returned("TooManyRequests")

(* ---------------------------------------------------------------------- *)
(* C2                                                                      *)
(* ---------------------------------------------------------------------- *)

\* C2: a chain started with retry_count = 0 never makes more than
\* max_retries + 1 sends.
C2_AttemptsBounded ==
    StartedAtZero => sends <= Policy.max_retries + 1

\* The bound is reached: max_retries = 2 and three sends.
C2_Witness ==
    StartedAtZero /\ Policy.max_retries = 2 /\ sends = 3 /\ pc = "done"

(* ---------------------------------------------------------------------- *)
(* C3                                                                      *)
(* ---------------------------------------------------------------------- *)

\* C3: in a chain started with retry_count = 0, n <= max_retries non-success
\* responses followed by a success end in Ok with n + 1 sends:
\*  - the chain never gives up with a status error before it has received
\*    max_retries + 1 responses (so n <= max_retries failures are all retried),
\*  - every response before the last one was a non-success, and
\*  - once a success has been received the chain has made as many sends as
\*    it received responses, makes no further move but returning, and what
\*    it returns is Ok with that response.
C3_SuccessAfterFailures ==
    StartedAtZero =>
        /\ ReturnedStatusError => Len(statuses) = Policy.max_retries + 1
        /\ \A i \in 1 .. Len(statuses) - 1 : ~(statuses[i] \in 200 .. 299)
        /\ (Len(statuses) >= 1 /\ LastStatus \in 200 .. 299) =>
              /\ Len(statuses) <= Policy.max_retries + 1
              /\ sends = Len(statuses)
              /\ Len(sleeps) = Len(statuses) - 1
              /\ pc \in {"respond", "done"}
              /\ pc = "done" =>
                    /\ Returned("Ok")
                    /\ result[1].status = response[1].status
                    /\ result[1].status = LastStatus

\* Two failures (one of them 503) and then a success under max_retries = 2.
C3_Witness ==
    /\ StartedAtZero /\ Policy.max_retries = 2
    /\ statuses = <<500, 503, 200>>
    /\ sends = 3
    /\ Returned("Ok")

(* ---------------------------------------------------------------------- *)
(* C4                                                                      *)
(* ---------------------------------------------------------------------- *)

\* C4 (as stated): with retry state present and max_retries = 0, a failing
\* first response means one send, no sleep, an unchanged counter, and the
\* call returns UnexpectedStatusCode.
C4_ZeroRetriesUnexpectedStatus ==
    (/\ caller_retry_data # None
     /\ Policy.max_retries = 0
     /\ Len(statuses) >= 1
     /\ ~(statuses[1] \in 200 .. 299)) =>
        /\ sends = 1
        /\ sleeps = <<>>
        /\ retry_data = caller_retry_data
        /\ pc \in {"respond", "done"}
        /\ pc = "done" => Returned("UnexpectedStatusCode")

\* C4 (amended): as above, but the error returned is the one the status
\* calls for: TooManyRequests for 429/503, UnexpectedStatusCode(status) for
\* every other failing status.
C4_ZeroRetriesFailFast ==
    (/\ caller_retry_data # None
     /\ Policy.max_retries = 0
     /\ Len(statuses) >= 1
     /\ ~(statuses[1] \in 200 .. 299)) =>
        /\ sends = 1
        /\ sleeps = <<>>
        /\ retry_data = caller_retry_data
        /\ pc \in {"respond", "done"}
        /\ pc = "done" =>
              IF statuses[1] \in {429, 503}
              THEN Returned("TooManyRequests")
              ELSE /\ Returned("UnexpectedStatusCode")
                   /\ result[1].status = statuses[1]

\* max_retries = 0 with a counter that differs from it, and a 500.
C4_Witness ==
    /\ caller_retry_data # None
    /\ Policy.max_retries = 0
    /\ caller_retry_data[1].retry_count = 1
    /\ statuses = <<500>>
    /\ Returned("UnexpectedStatusCode")

(* ---------------------------------------------------------------------- *)
(* C5, C6                                                                  *)
(* ---------------------------------------------------------------------- *)

\* The delay initial_backoff_ms * backoff_multiplier^n as a mathematical
\* integer, for the policy of the chain.
ExactDelay(n) == Policy.initial_backoff_ms * Policy.backoff_multiplier ^ n

\* C5: in a chain started with retry_count = 0 the k-th delay slept is
\* exactly initial_backoff_ms * backoff_multiplier^k.
C5_DelayIsExactPower ==
    StartedAtZero =>
        \A k \in 1 .. Len(sleeps) : sleeps[k] = ExactDelay(k)

\* C6: the chain never panics and never sleeps for a retry whose exact delay
\* does not fit the unsigned range (it returns BackoffOverflow instead).
C6_NoWrapNoPanic ==
    caller_retry_data # None =>
        /\ pc # "panicked"
        /\ \A k \in 1 .. Len(sleeps) :
              ExactDelay(caller_retry_data[1].retry_count + k) <= U64_MAX

(* ---------------------------------------------------------------------- *)
(* C7                                                                      *)
(* ---------------------------------------------------------------------- *)

DecimalDigits == {"0", "1", "2", "3", "4", "5", "6", "7", "8", "9"}

DigitOf ==
    [c \in DecimalDigits |->
        CASE c = "0" -> 0 [] c = "1" -> 1 [] c = "2" -> 2 [] c = "3" -> 3
          [] c = "4" -> 4 [] c = "5" -> 5 [] c = "6" -> 6 [] c = "7" -> 7
          [] c = "8" -> 8 [] c = "9" -> 9]

\* The number a string of decimal digits denotes (positional notation).
RECURSIVE DecimalValue(_)
DecimalValue(d) ==
    IF d = <<>> THEN 0
    ELSE DigitOf[d[1]] * 10 ^ (Len(d) - 1) + DecimalValue(Tail(d))

\* What the Retry-After header of a header list says: Some(s) when the
\* (first) header named Retry-After holds a non-negative base-10 integer s
\* (decimal digits, optionally signed "+") within the unsigned range; None
\* when there is no such header or its value has any other form.
StatedRetryAfter(headers) ==
    LET at == {i \in 1 .. Len(headers) : headers[i][1] = "retry-after"}
    IN  IF at = {} THEN <<>>
        ELSE LET first == CHOOSE i \in at : \A j \in at : i <= j
                 v == headers[first][2]
                 d == IF Len(v) >= 1 /\ v[1] = "+" THEN SubSeq(v, 2, Len(v)) ELSE v
             IN  IF /\ Len(d) >= 1
                    /\ \A i \in 1 .. Len(d) : d[i] \in DecimalDigits
                    /\ DecimalValue(d) <= U64_MAX
                 THEN <<DecimalValue(d)>>
                 ELSE <<>>

\* C7: a call that ends on a 429/503 response returns TooManyRequests whose
\* payload is what the Retry-After header of that response says, whatever
\* other headers the response carries.
C7_RetryAfterPayload ==
    (ReturnedStatusError /\ LastStatus \in {429, 503}) =>
        /\ result[1].kind = "TooManyRequests"
        /\ result[1].retry_after = StatedRetryAfter(response[1].headers)

\* A 429 whose Retry-After: 120 follows another rate-limit header.
C7_Witness ==
    /\ Returned("TooManyRequests")
    /\ LastStatus = 429
    /\ response[1].headers =
          << <<"x-ratelimit-reset", <<"7">> >>, <<"retry-after", <<"1", "2", "0">> >> >>
    /\ result[1].retry_after = <<120>>

(* ---------------------------------------------------------------------- *)
(* C8                                                                      *)
(* ---------------------------------------------------------------------- *)

\* C8: when try_clone yields nothing, the chain makes no send and no sleep,
\* receives no response, and what it returns is RequestBuilderClone.
C8_NotClonable ==
    ~clonable =>
        /\ sends = 0
        /\ sleeps = <<>>
        /\ statuses = <<>>
        /\ pc \in {"try_clone", "done"}
        /\ pc = "done" => Returned("RequestBuilderClone")

\* A request that cannot be cloned, under a policy with retries left.
C8_Witness ==
    /\ ~clonable
    /\ caller_retry_data # None /\ Policy.max_retries = 2
    /\ Returned("RequestBuilderClone")

(* ---------------------------------------------------------------------- *)
(* C9                                                                      *)
(* ---------------------------------------------------------------------- *)

\* C9: a send that got no response (a transport failure) ends the chain at
\* once with Reqwest, on any attempt; and once the call has returned
\* RequestBuilderClone, Reqwest or BackoffOverflow, no send and no sleep
\* follows and the result stays.
C9_NoRetryOnFatalErrors ==
    /\ [](sends # Len(statuses) =>
            /\ sends = Len(statuses) + 1
            /\ Returned("Reqwest"))
    /\ [][ (result # None /\
            result[1].kind \in {"RequestBuilderClone", "Reqwest", "BackoffOverflow"}) =>
              /\ sends' = sends
              /\ sleeps' = sleeps
              /\ result' = result
              /\ pc' = "done"
         ]_vars

\* A transport failure on the second attempt, with budget left.
C9_Witness ==
    /\ StartedAtZero /\ Policy.max_retries = 2
    /\ sends = 2 /\ Len(statuses) = 1 /\ Len(sleeps) = 1
    /\ Returned("Reqwest")

(* ---------------------------------------------------------------------- *)
(* C10                                                                     *)
(* ---------------------------------------------------------------------- *)

\* C10: a chain started with retry_count = 0 and max_retries > 0 that only
\* receives non-success statuses other than 429/503 is not ended by a status
\* before response number max_retries + 1, makes no send after it, and the
\* error it then returns is UnexpectedStatusCode with the status of that
\* last response.
C10_ExhaustedUnexpectedStatus ==
    (/\ StartedAtZero
     /\ Policy.max_retries > 0
     /\ \A i \in 1 .. Len(statuses) :
           ~(statuses[i] \in 200 .. 299) /\ ~(statuses[i] \in {429, 503})) =>
        /\ sends <= Policy.max_retries + 1
        /\ Len(statuses) = Policy.max_retries + 1 => pc \in {"respond", "done"}
        /\ (pc = "done" /\ result[1].kind \notin
                {"RequestBuilderClone", "Reqwest", "BackoffOverflow"}) =>
              /\ sends = Policy.max_retries + 1
              /\ Len(sleeps) = Policy.max_retries
              /\ result[1].kind = "UnexpectedStatusCode"
              /\ result[1].status = LastStatus

\* 404, 404, then 500 under max_retries = 2: the error carries 500.
C10_Witness ==
    /\ StartedAtZero /\ Policy.max_retries = 2
    /\ statuses = <<404, 404, 500>>
    /\ result = Some([kind |-> "UnexpectedStatusCode", status |-> 500, retry_after |-> <<>>])

(* ---------------------------------------------------------------------- *)
(* C11                                                                     *)
(* ---------------------------------------------------------------------- *)

\* C11: when execute_request is called with retry_data = None, a non-success
\* first response means one send and no sleep, nothing follows but the
\* return, and the error returned is UnexpectedStatusCode with the status
\* of the response unless that status is 429 or 503 (TooManyRequests).
C11_NoRetryState ==
    (/\ caller_retry_data = <<>>
     /\ Len(statuses) >= 1
     /\ ~(statuses[1] \in 200 .. 299)) =>
        /\ sends = 1
        /\ Len(statuses) = 1
        /\ sleeps = <<>>
        /\ pc \in {"respond", "done"}
        /\ pc = "done" =>
              IF statuses[1] \in {429, 503}
              THEN Returned("TooManyRequests")
              ELSE /\ Returned("UnexpectedStatusCode")
                   /\ result[1].status = statuses[1]

\* A call without retry state that was answered 404.
C11_Witness ==
    /\ caller_retry_data = <<>>
    /\ statuses = <<404>>
    /\ sends = 1
    /\ result = <<[kind |-> "UnexpectedStatusCode", status |-> 404, retry_after |-> <<>>]>>

(* ---------------------------------------------------------------------- *)
(* C14                                                                     *)
(* ---------------------------------------------------------------------- *)

\* C14: in a chain started with retry_count = 0 the counter of the current
\* invocation never exceeds max_retries; while the chain sleeps before a
\* retry the counter is between 1 and max_retries.
C14_AttemptWithinBudget ==
    StartedAtZero =>
        /\ retry_data # <<>>
        /\ retry_data[1].retry_count <= retry_data[1].settings.max_retries
        /\ retry_data[1].retry_count <= Policy.max_retries
        /\ pc = "sleeping" => retry_data[1].retry_count >= 1

\* The last retry the budget allows: sleeping with retry_count = max_retries.
C14_Witness ==
    /\ StartedAtZero /\ Policy.max_retries = 2
    /\ pc = "sleeping"
    /\ retry_data[1].retry_count = 2

(* ---------------------------------------------------------------------- *)
(* C15                                                                     *)
(* ---------------------------------------------------------------------- *)

\* C15: the retry state the caller owns never changes, and the retry state
\* of every invocation of the chain carries the caller's settings; only its
\* counter differs.
C15_PolicyNotMutated ==
    /\ [][caller_retry_data' = caller_retry_data]_vars
    /\ []((retry_data = <<>>) <=> (caller_retry_data = <<>>))
    /\ [](retry_data # <<>> =>
            /\ retry_data[1].settings = caller_retry_data[1].settings
            /\ retry_data[1].retry_count >= caller_retry_data[1].retry_count)

\* After two retries the invocation's counter is 2 and the caller's is 0.
C15_Witness ==
    /\ pc = "done"
    /\ caller_retry_data # <<>> /\ caller_retry_data[1].retry_count = 0
    /\ retry_data[1].retry_count = 2
    /\ retry_data[1].settings = caller_retry_data[1].settings

(* ---------------------------------------------------------------------- *)
(* C16                                                                     *)
(* ---------------------------------------------------------------------- *)

\* C16: a chain started with retry_count = 0 eventually returns: success or
\* one error.
C16_EventuallyReturns ==
    StartedAtZero => <>(pc = "done" /\ result # <<>>)

(* ---------------------------------------------------------------------- *)
(* C19                                                                     *)
(* ---------------------------------------------------------------------- *)

\* C19: the call never ends without a typed result, and the result it
\* returns is the one of the branch that ended the chain: RequestBuilderClone
\* for a failed try_clone, Reqwest for a failed send, and otherwise Ok for a
\* success status, TooManyRequests for 429/503 and UnexpectedStatusCode for
\* any other status of the last response, or BackoffOverflow.
C19_TypedOutcome ==
    /\ pc # "panicked"
    /\ pc = "done" =>
          /\ result # <<>>
          /\ result[1].kind \in
                {"Ok", "RequestBuilderClone", "Reqwest", "TooManyRequests",
                 "UnexpectedStatusCode", "BackoffOverflow"}
          /\ result[1].kind = "RequestBuilderClone" <=> ~clonable
          /\ result[1].kind = "Reqwest" <=> sends = Len(statuses) + 1
          /\ result[1].kind = "Ok" => LastStatus \in 200 .. 299
          /\ result[1].kind = "TooManyRequests" => LastStatus \in {429, 503}
          /\ result[1].kind = "UnexpectedStatusCode" =>
                /\ ~(LastStatus \in 200 .. 299)
                /\ ~(LastStatus \in {429, 503})
          /\ result[1].kind = "BackoffOverflow" => ~(LastStatus \in 200 .. 299)

(* ---------------------------------------------------------------------- *)
(* C12 (FetchSpec)                                                         *)
(* ---------------------------------------------------------------------- *)

\* C12: when the first response has a 2xx status, the chain makes that one
\* send and no sleep whatever the retry settings, and returns Ok with that
\* response; the fetcher then returns without another request, and what it
\* returns for a body that deserializes and converts is the converted
\* entity (single fetchers) or the list of converted entities (list
\* fetchers).
C12_FirstSuccessIsFinal ==
    (Len(statuses) >= 1 /\ statuses[1] \in 200 .. 299) =>
        /\ sends = 1
        /\ Len(statuses) = 1
        /\ sleeps = <<>>
        /\ pc \in {"respond", "done"}
        /\ pc = "done" => Returned("Ok") /\ result[1].status = statuses[1]
        /\ fetched # <<>> =>
              /\ pc = "done"
              /\ body # <<>>
              /\ (/\ body[1].parsed
                  /\ \A i \in 1 .. Len(body[1].items) : body[1].items[i].convertible) =>
                    /\ fetched[1].kind = "Ok"
                    /\ fetched[1].value =
                          IF fetcher \in {"get_charge", "get_notice", "get_district"}
                          THEN [entity |-> body[1].items[1].id]
                          ELSE [i \in 1 .. Len(body[1].items) |->
                                   [entity |-> body[1].items[i].id]]

\* get_charges with the default settings, answered 200 with two objects.
C12_Witness ==
    /\ fetcher = "get_charges" /\ retry_settings = <<>>
    /\ statuses = <<200>> /\ sends = 1
    /\ fetched # <<>> /\ fetched[1].kind = "Ok"
    /\ fetched[1].value = <<[entity |-> 2], [entity |-> 1]>>

(* ---------------------------------------------------------------------- *)
(* C13 (FetchSpec)                                                         *)
(* ---------------------------------------------------------------------- *)

\* C13: a fetcher called with retry_settings = None runs execute_request
\* with Some of {retry_count 0, initial_backoff_ms 300, max_retries 5,
\* backoff_multiplier 2}; when every answer is 500 the chain makes at most
\* 6 sends, sleeps 600, 1200, 2400, 4800, 9600 ms between them, is ended by
\* the sixth answer and by no earlier one, and the fetcher returns
\* UnexpectedStatusCode(500).
C13_RetryByDefault ==
    (fetcher # "none" /\ retry_settings = <<>> /\ pc # "fetch") =>
        /\ caller_retry_data =
              <<[retry_count |-> 0,
                 settings |-> [initial_backoff_ms |-> 300, max_retries |-> 5,
                               backoff_multiplier |-> 2]]>>
        /\ (\A i \in 1 .. Len(statuses) : statuses[i] = 500) =>
              /\ sends <= 6
              /\ Len(sleeps) <= 5
              /\ \A k \in 1 .. Len(sleeps) :
                    sleeps[k] = <<600, 1200, 2400, 4800, 9600>>[k]
              /\ Len(statuses) = 6 => pc \in {"respond", "done"}
              /\ (pc = "done" /\ result[1].kind # "Reqwest") =>
                    /\ sends = 6
                    /\ Len(sleeps) = 5
                    /\ result[1].kind = "UnexpectedStatusCode"
                    /\ result[1].status = 500
              /\ fetched # <<>> =>
                    /\ fetched[1].kind = "Err"
                    /\ fetched[1].value = result[1]

\* get_notice without settings against a server that answered 500 six times.
C13_Witness ==
    /\ fetcher = "get_notice" /\ retry_settings = <<>>
    /\ statuses = <<500, 500, 500, 500, 500, 500>>
    /\ sleeps = <<600, 1200, 2400, 4800, 9600>>
    /\ fetched # <<>>
    /\ fetched[1].value.kind = "UnexpectedStatusCode"
    /\ fetched[1].value.status = 500

(* ---------------------------------------------------------------------- *)
(* C17 (PairSpec)                                                          *)
(* ---------------------------------------------------------------------- *)

\* C17: while the running chain is in its backoff delay and shares its
\* thread with another chain that has not finished, the host can go on
\* with that other chain before the delay has elapsed.
C17_DelayDoesNotBlock ==
    (/\ threads = 1
     /\ pc = "sleeping"
     /\ parked # <<>>
     /\ parked[1].pc \notin {"done", "panicked"}) => ENABLED Switch

(* ---------------------------------------------------------------------- *)
(* C18 (PairSpec)                                                          *)
(* ---------------------------------------------------------------------- *)

\* What a chain with retry state rd produces alone from the kth of the
\* answers sts on, having slept sl: the number of requests, the delays and
\* the result.  No answer left means the request failed in transport.
RECURSIVE RunAlone(_, _, _, _)
RunAlone(rd, sts, k, sl) ==
    IF k > Len(sts)
    THEN [requests |-> k, sleeps |-> sl, kind |-> "Reqwest", status |-> 0]
    ELSE IF sts[k] \in 200 .. 299
    THEN [requests |-> k, sleeps |-> sl, kind |-> "Ok", status |-> sts[k]]
    ELSE IF \/ rd = <<>>
            \/ rd[1].retry_count = rd[1].settings.max_retries
            \/ rd[1].settings.max_retries = 0
    THEN IF sts[k] \in {429, 503}
         THEN [requests |-> k, sleeps |-> sl, kind |-> "TooManyRequests", status |-> 0]
         ELSE [requests |-> k, sleeps |-> sl, kind |-> "UnexpectedStatusCode",
               status |-> sts[k]]
    ELSE LET n == rd[1].retry_count + 1
             factor == checked_pow(rd[1].settings.backoff_multiplier, n)
         IN  IF factor = <<>>
             THEN [requests |-> k, sleeps |-> sl, kind |-> "BackoffOverflow",
                   status |-> 0]
             ELSE RunAlone(<<[rd[1] EXCEPT !.retry_count = n]>>, sts, k + 1,
                           Append(sl, (rd[1].settings.initial_backoff_ms * factor[1])
                                         % 2 ^ U64Bits))

\* Chain c is as it is when run alone: its attempt counter is its own
\* start plus its own delays under its own policy, and once it has
\* returned, its requests, delays and result are those of RunAlone on the
\* answers it received.
AsAlone(c) ==
    /\ c.caller_retry_data = <<>> <=> c.retry_data = <<>>
    /\ c.retry_data # <<>> =>
          /\ c.retry_data[1].settings = c.caller_retry_data[1].settings
          /\ c.retry_data[1].retry_count =
                c.caller_retry_data[1].retry_count + Len(c.sleeps)
    /\ c.pc = "done" =>
          IF ~c.clonable
          THEN /\ c.sends = 0
               /\ c.sleeps = <<>>
               /\ c.result[1].kind = "RequestBuilderClone"
          ELSE LET alone == RunAlone(c.caller_retry_data, c.statuses, 1, <<>>)
               IN  /\ c.sends = alone.requests
                   /\ c.sends >= Len(c.statuses)
                   /\ c.sleeps = alone.sleeps
                   /\ c.result[1].kind = alone.kind
                   /\ c.result[1].status = alone.status

\* C18: of two chains invoked concurrently, a step of one leaves the other
\* as it was, the host resumes each chain with the attempt counter and all
\* other state it was left with, and each chain's attempts, delays and
\* result are those it produces alone on the answers it received.
C18_ChainsIndependent ==
    /\ [][running' = running => parked' = parked]_vars
    /\ [][running' # running =>
            /\ parked'[1].retry_data = retry_data
            /\ retry_data' = parked[1].retry_data
            /\ parked'[1].sleeps = sleeps /\ sleeps' = parked[1].sleeps
            /\ parked'[1].sends = sends /\ sends' = parked[1].sends
            /\ parked'[1].result = result /\ result' = parked[1].result]_vars
    /\ [](parked # <<>> =>
            /\ AsAlone(parked[1])
            /\ AsAlone([clonable |-> clonable,
                        caller_retry_data |-> caller_retry_data,
                        retry_data |-> retry_data, pc |-> pc,
                        response |-> response, statuses |-> statuses,
                        sends |-> sends, sleeps |-> sleeps, result |-> result]))

\* Two chains on two threads that have both returned after retries, one
\* after one delay and the other after two.
C18_Witness ==
    /\ parked # <<>> /\ threads = 2
    /\ pc = "done" /\ parked[1].pc = "done"
    /\ statuses = <<500, 200>> /\ sleeps = <<600>>
    /\ parked[1].statuses = <<503, 500, 503>> /\ parked[1].sleeps = <<600, 1200>>
    /\ parked[1].result[1].kind = "TooManyRequests"

(* ---------------------------------------------------------------------- *)
(* C20 (ExportSpec)                                                        *)
(* ---------------------------------------------------------------------- *)

\* The .csv files the call has extracted from the archive, in order.
ExtractedCsv ==
    SelectSeq(archive, LAMBDA e : e.name.ext \in {"csv", "CSV"})

\* C20: when the download has succeeded, the call returns the path of the
\* downloaded zip file if unzip is false; if unzip is true and the archive
\* was extracted, it returns the first .csv file extracted from the
\* archive, which is never a .csv the call did not extract, and it fails
\* when the archive yielded no .csv.
C20_ReturnsExtractedCsv ==
    (dl_pc = "done" /\ latest # <<>> /\ dl_result[1].error \notin {"download", "unzip"}) =>
        IF ~unzip
        THEN /\ dl_result[1].kind = "Ok"
             /\ dl_result[1].file =
                   <<[stem |-> IF latest[1].entity = 1 THEN "export1" ELSE "export2",
                      ext |-> "zip"]>>
        ELSE /\ ExtractedCsv = <<>> => dl_result[1].kind = "Err"
             /\ dl_result[1].kind = "Ok" =>
                   /\ ExtractedCsv # <<>>
                   /\ dl_result[1].file = <<ExtractedCsv[1].name>>

(* ---------------------------------------------------------------------- *)
(* C22 (FetchSpec)                                                         *)
(* ---------------------------------------------------------------------- *)

\* C22: once execute_request has returned a 2xx response to a fetcher, no
\* further request and no sleep is made for the call; a body that does not
\* deserialize makes the fetcher return Deserialize, a body with an object
\* that does not convert makes it return Conversion, and the fetcher
\* returns in the step that decodes the body.
C22_DecodeErrorsNotRetried ==
    /\ [][(pc = "done" /\ result # <<>> /\ result[1].kind = "Ok") =>
            (sends' = sends /\ sleeps' = sleeps /\ pc' = "done"
             /\ statuses' = statuses)]_vars
    /\ [](body # <<>> =>
            /\ fetched # <<>>
            /\ pc = "done" /\ result[1].kind = "Ok"
            /\ ~body[1].parsed =>
                  fetched[1] = [kind |-> "Err", value |-> [kind |-> "Deserialize"]]
            /\ (/\ body[1].parsed
                /\ \E i \in 1 .. Len(body[1].items) : ~body[1].items[i].convertible) =>
                  /\ fetched[1].kind = "Err"
                  /\ fetched[1].value.kind = "Conversion")

\* get_notice, answered 500 and then 200 with a body that is not the JSON
\* of a notice.
C22_Witness ==
    /\ fetcher = "get_notice"
    /\ statuses = <<500, 200>> /\ sends = 2 /\ Len(sleeps) = 1
    /\ body # <<>> /\ ~body[1].parsed
    /\ fetched # <<>> /\ fetched[1].value.kind = "Deserialize"

(* ---------------------------------------------------------------------- *)
(* C26 (FetchSpec)                                                         *)
(* ---------------------------------------------------------------------- *)

\* C26: a list fetcher that has parsed the response array returns Ok only
\* if every element converted, and then the list of the converted elements
\* in the order and of the length of the array; if an element does not
\* convert it returns Conversion for the first such element and no list.
C26_AllOrNothing ==
    (/\ fetcher \in {"get_charges", "get_notices", "get_districts", "get_exports"}
     /\ fetched # <<>> /\ body # <<>> /\ body[1].parsed) =>
        LET items == body[1].items
            failing == {i \in 1 .. Len(items) : ~items[i].convertible}
        IN  IF failing = {}
            THEN /\ fetched[1].kind = "Ok"
                 /\ Len(fetched[1].value) = Len(items)
                 /\ \A i \in 1 .. Len(items) :
                       fetched[1].value[i] = [entity |-> items[i].id]
            ELSE /\ fetched[1].kind = "Err"
                 /\ \E i \in failing :
                       /\ \A j \in failing : i <= j
                       /\ fetched[1].value = [kind |-> "Conversion", item |-> items[i].id]

\* get_districts, answered with an array whose second element does not
\* convert.
C26_Witness ==
    /\ fetcher = "get_districts"
    /\ body # <<>> /\ body[1].parsed
    /\ body[1].items = <<[id |-> 2, convertible |-> TRUE],
                         [id |-> 1, convertible |-> FALSE]>>
    /\ fetched # <<>>
    /\ fetched[1] = [kind |-> "Err", value |-> [kind |-> "Conversion", item |-> 1]]

(* ---------------------------------------------------------------------- *)
(* C24                                                                     *)
(* ---------------------------------------------------------------------- *)

\* C24: a request is sent only from the position a successful try_clone
\* leads to, and that position is entered only by a try_clone of a
\* clonable builder, on the first attempt and on every retry (the sleep is
\* followed by try_clone, not by a send); the caller's builder stays as it
\* was; a try_clone that yields nothing ends the chain with
\* RequestBuilderClone and without a send.
C24_FreshCloneEachAttempt ==
    /\ [][sends' # sends => (pc = "send" /\ sends' = sends + 1)]_vars
    /\ [][(pc' = "send" /\ pc # "send") => (pc = "try_clone" /\ clonable)]_vars
    /\ [][pc = "send" => pc' # "send"]_vars
    /\ [][pc = "sleeping" => pc' = "try_clone"]_vars
    /\ [][clonable' = clonable]_vars
    /\ [][(pc = "try_clone" /\ ~clonable) =>
            /\ pc' = "done"
            /\ result'[1].kind = "RequestBuilderClone"
            /\ sends' = sends]_vars

\* The second attempt of a chain has its copy and is about to send it.
C24_Witness ==
    /\ pc = "send" /\ sends = 1 /\ Len(sleeps) = 1
    /\ statuses = <<500>> /\ clonable

(* ---------------------------------------------------------------------- *)
(* C27                                                                     *)
(* ---------------------------------------------------------------------- *)

\* C27: a non-success response met without retry state, with
\* retry_count = max_retries or with max_retries = 0 is answered by
\* TooManyRequests or UnexpectedStatusCode, never by BackoffOverflow,
\* whatever the multiplier; BackoffOverflow is returned only in the step
\* that handles a non-success response while budget remained, and that
\* step makes no sleep.
C27_ExhaustionBeforeOverflow ==
    /\ [][(/\ pc = "respond"
           /\ response[1].status \notin 200 .. 299
           /\ \/ retry_data = <<>>
              \/ retry_data[1].retry_count = retry_data[1].settings.max_retries
              \/ retry_data[1].settings.max_retries = 0) =>
            /\ pc' = "done"
            /\ result'[1].kind \in {"TooManyRequests", "UnexpectedStatusCode"}
            /\ sleeps' = sleeps]_vars
    /\ [][(result' # result /\ result'[1].kind = "BackoffOverflow") =>
            /\ pc = "respond"
            /\ response[1].status \notin 200 .. 299
            /\ retry_data # <<>>
            /\ retry_data[1].settings.max_retries # 0
            /\ retry_data[1].retry_count # retry_data[1].settings.max_retries
            /\ sleeps' = sleeps
            /\ sends' = sends]_vars
    /\ [](Returned("BackoffOverflow") =>
            /\ sends >= 1
            /\ Len(statuses) = sends
            /\ statuses[Len(statuses)] \notin 200 .. 299
            /\ Len(sleeps) = sends - 1)

\* A chain whose factor overflows at its second retry returned
\* BackoffOverflow after two failing responses and one sleep.
C27_Witness ==
    /\ Returned("BackoffOverflow")
    /\ StartedAtZero
    /\ sends = 2 /\ Len(sleeps) = 1
    /\ statuses[2] \in {429, 503}

(* ---------------------------------------------------------------------- *)
(* C28                                                                     *)
(* ---------------------------------------------------------------------- *)

\* C28: a sleep is made only in the step that handles a non-success
\* response, and is followed by try_clone of the next attempt; none is
\* made before the first send or by a step that ends the chain; the sleeps
\* never outnumber the sends, are fewer than the sends once the latest
\* send has been answered or has failed, and are at most max_retries for a
\* chain started at retry_count 0.
C28_SleepsBetweenAttempts ==
    /\ [][sleeps' # sleeps =>
            /\ pc = "respond"
            /\ statuses[Len(statuses)] \notin 200 .. 299
            /\ Len(sleeps') = Len(sleeps) + 1
            /\ pc' = "sleeping"]_vars
    /\ [][pc = "sleeping" => (pc' = "try_clone" /\ clonable')]_vars
    /\ [][pc' = "done" => sleeps' = sleeps]_vars
    /\ [](/\ Len(sleeps) <= sends
          /\ sends = 0 => sleeps = <<>>
          /\ (sends >= 1 /\ pc \in {"respond", "done", "panicked"}) =>
                Len(sleeps) = sends - 1
          /\ pc \in {"sleeping", "send"} => Len(sleeps) = sends
          /\ StartedAtZero => Len(sleeps) <= caller_retry_data[1].settings.max_retries)

\* A chain between its second and third attempt.
C28_Witness ==
    /\ pc = "sleeping" /\ sends = 2 /\ Len(sleeps) = 2
    /\ StartedAtZero

(* ---------------------------------------------------------------------- *)
(* C30                                                                     *)
(* ---------------------------------------------------------------------- *)

\* C30: a returned UnexpectedStatusCode carries the status of the last
\* response, which is neither 2xx nor 429 nor 503; TooManyRequests is
\* returned only when the last response had status 429 or 503; a returned
\* Ok carries a 2xx status, that of the last response.
C30_ErrorMatchesStatus ==
    (pc = "done" /\ result # <<>>) =>
        /\ result[1].kind = "UnexpectedStatusCode" =>
              /\ result[1].status \notin 200 .. 299
              /\ result[1].status \notin {429, 503}
              /\ result[1].status = statuses[Len(statuses)]
        /\ result[1].kind = "TooManyRequests" =>
              /\ Len(statuses) >= 1
              /\ statuses[Len(statuses)] \in {429, 503}
        /\ result[1].kind = "Ok" =>
              /\ result[1].status \in 200 .. 299
              /\ result[1].status = statuses[Len(statuses)]

\* A chain ended by 503 after a 404.
C30_Witness ==
    /\ Returned("TooManyRequests")
    /\ statuses = <<404, 503>>

(* ---------------------------------------------------------------------- *)
(* C29                                                                     *)
(* ---------------------------------------------------------------------- *)

\* C29: the status error a chain returns is determined by its last
\* response alone (TooManyRequests with what that response's Retry-After
\* says for 429/503, UnexpectedStatusCode of its status otherwise), and the
\* delay slept after a 429/503 response that is retried is
\* initial_backoff_ms * backoff_multiplier^retry_count, whatever the
\* Retry-After of that response.
C29_LastResponseDecides ==
    /\ ReturnedStatusError =>
          result[1] =
             IF response[1].status \in {429, 503}
             THEN [kind |-> "TooManyRequests", status |-> 0,
                   retry_after |-> StatedRetryAfter(response[1].headers)]
             ELSE [kind |-> "UnexpectedStatusCode", status |-> response[1].status,
                   retry_after |-> <<>>]
    /\ caller_retry_data # <<>> =>
          \A k \in 1 .. Len(sleeps) :
             statuses[k] \in {429, 503} =>
                sleeps[k] = ExactDelay(caller_retry_data[1].retry_count + k)

(* ---------------------------------------------------------------------- *)
(* C21 (ExportSpec)                                                        *)
(* ---------------------------------------------------------------------- *)

\* C21: when the download of the archive was answered with a non-success
\* status, the call returns an error, and the body of that response has
\* not been written to a file of the target directory.
C21_DownloadStatusChecked ==
    (dl_pc = "done" /\ dl_response # <<>> /\ dl_response[1] \notin 200 .. 299) =>
        /\ dl_result[1].kind = "Err"
        /\ \A f \in DOMAIN dir : dir[f] # "download"

(* ---------------------------------------------------------------------- *)
(* C25 (ExportSpec)                                                        *)
(* ---------------------------------------------------------------------- *)

\* Nothing has been downloaded: no request for an archive was answered and
\* the target directory holds what it held before the call.
NothingDownloaded ==
    /\ dl_response = <<>>
    /\ latest = <<>>
    /\ \A f \in DOMAIN dir : dir[f] = "before"

\* C25: the export chosen for download is one of the exports get_exports
\* returned and none of them has a greater created_at; when get_exports
\* returned an empty list the call fails with "no export found", and when
\* get_exports failed the call fails, in both cases with nothing
\* downloaded and no file created.
C25_LatestExportDownloaded ==
    /\ latest # <<>> =>
          /\ fetched # <<>> /\ fetched[1].kind = "Ok"
          /\ \E i \in 1 .. Len(fetched[1].value) : fetched[1].value[i] = latest[1]
          /\ \A i \in 1 .. Len(fetched[1].value) :
                latest[1].entity >= fetched[1].value[i].entity
    /\ dl_pc \in {"get_exports", "download"} => dl_response = <<>>
    /\ (dl_pc = "done" /\ fetched[1].kind = "Ok" /\ fetched[1].value = <<>>) =>
          /\ dl_result[1].kind = "Err"
          /\ dl_result[1].error = "no export found"
          /\ NothingDownloaded
    /\ (dl_pc = "done" /\ fetched[1].kind = "Err") =>
          /\ dl_result[1].kind = "Err"
          /\ dl_result[1].error = "api"
          /\ NothingDownloaded

\* The exports endpoint listed the older export first; the newer one was
\* downloaded.
C25_Witness ==
    /\ dl_pc = "done"
    /\ fetched # <<>> /\ fetched[1].kind = "Ok"
    /\ fetched[1].value = <<[entity |-> 1], [entity |-> 2]>>
    /\ latest = <<[entity |-> 2]>>
    /\ dl_result[1].kind = "Ok"
    /\ dl_result[1].file = <<[stem |-> "export2", ext |-> "zip"]>>

(* ---------------------------------------------------------------------- *)
(* C23 (AnyStartSpec)                                                      *)
(* ---------------------------------------------------------------------- *)

====
